---------------------------- MODULE Spec2Model ----------------------------
(***************************************************************************)
(* Model of the EC2 instance-type optimisation Lambda                      *)
(* (lambda_handler.py, notify.py).                                         *)
(*                                                                         *)
(* Strings are sequences of pieces: every character that some step of the  *)
(* program treats specially (".", "+", " ", the JSON punctuation, a URL    *)
(* escape "%XX") is a piece of its own, and every maximal run of other     *)
(* characters ("t3", "medium", "i-0a1") is one piece.  Percentages are     *)
(* rationals <<numerator, denominator>>.                                   *)
(***************************************************************************)
EXTENDS Integers, Sequences, FiniteSets, TLC

VARIABLES
    CPU_THRESHOLD,      \* lambda_handler.py:10
    SLACK_WEBHOOK_URL,  \* lambda_handler.py:14 ("set" or "None")
    pc,                 \* position of the invocation
    event,              \* argument of lambda_handler
    origin,             \* the suggestion whose button produced the event, or None
    regions,            \* get_all_regions() result
    ri,                 \* index of the region being processed
    instances,          \* instances of the current region still to be processed
    listed,             \* number of instances the provider has listed in this scan
    ec2_suggestions,    \* lambda_handler.py:147
    evaluated,          \* per region begun: the suggestions computed for its instances
    failed,             \* indices of the regions whose processing raised
    lookups,            \* describe_instance_types calls issued, with their outcomes
    value_str,          \* lambda_handler.py:124
    action_value,       \* lambda_handler.py:126
    calls,              \* stop / wait / modify / start calls issued, with their outcomes
    applied,            \* (success, message) of apply_single_ec2_change, or None
    sent,               \* messages handed to send_slack_block_message
    result,             \* what the invocation returned or raised
    adv                 \* the Sizing Advisor call of AdvisorSpec

configVars == <<CPU_THRESHOLD, SLACK_WEBHOOK_URL>>
scanVars == <<regions, ri, instances, listed, ec2_suggestions, evaluated, failed, lookups>>
callbackVars == <<value_str, action_value, calls, applied>>
vars == <<configVars, pc, event, origin, scanVars, callbackVars, sent, result, adv>>

\* Python's None, and a value that is not None
None == [some |-> FALSE]
Some(v) == [some |-> TRUE, v |-> v]

-----------------------------------------------------------------------------
(* Bounds *)

MaxRegions == 2
MaxInstances == 2
MaxSamples == 2

-----------------------------------------------------------------------------
(* Sequence helpers *)

RECURSIVE Flatten(_)
Flatten(ss) == IF ss = <<>> THEN <<>> ELSE Head(ss) \o Flatten(Tail(ss))

SeqsUpTo(S, n) == UNION {[1..k -> S] : k \in 0..n}

Contains(s, x) == \E i \in 1..Len(s) : s[i] = x

IndexOf(s, x) == CHOOSE i \in 1..Len(s) : s[i] = x /\ \A j \in 1..(i - 1) : s[j] # x

LastIndexOf(s, x) == CHOOSE i \in 1..Len(s) : s[i] = x /\ \A j \in (i + 1)..Len(s) : s[j] # x

-----------------------------------------------------------------------------
(* Metrics Reader *)

\* sum(dp['Average'] for dp in data_points)
RECURSIVE SumAverage(_)
SumAverage(data_points) ==
    IF data_points = <<>> THEN 0
    ELSE Head(data_points).Average + SumAverage(Tail(data_points))

\* max(dp['Maximum'] for dp in data_points)
RECURSIVE MaxMaximum(_)
MaxMaximum(data_points) ==
    IF Len(data_points) = 1 THEN data_points[1].Maximum
    ELSE LET m == MaxMaximum(Tail(data_points))
         IN  IF Head(data_points).Maximum >= m THEN Head(data_points).Maximum ELSE m

\* get_cpu_utilization: (avg_cpu, max_cpu); avg_cpu is the exact mean sum/len.
get_cpu_utilization(data_points) ==
    IF data_points = <<>>
    THEN [avg_cpu |-> <<0, 1>>, max_cpu |-> 0]
    ELSE [avg_cpu |-> <<SumAverage(data_points), Len(data_points)>>,
          max_cpu |-> MaxMaximum(data_points)]

-----------------------------------------------------------------------------
(* Sizing Advisor *)

SIZE_ORDER == <<"nano", "micro", "small", "medium", "large",
                "xlarge", "2xlarge", "4xlarge", "8xlarge",
                "12xlarge", "16xlarge", "24xlarge", "32xlarge", "48xlarge", "64xlarge">>

\* current_type.rsplit('.', 1)
RSplitFamily(current_type) == SubSeq(current_type, 1, LastIndexOf(current_type, ".") - 1)
RSplitSize(current_type) ==
    SubSeq(current_type, LastIndexOf(current_type, ".") + 1, Len(current_type))

\* size in SIZE_ORDER: the size token is one of the fifteen names
SizeInOrder(size) == Len(size) = 1 /\ Contains(SIZE_ORDER, size[1])

\* f"{family}.{SIZE_ORDER[i]}"
TypeName(family, i) == family \o <<".", SIZE_ORDER[i]>>

\* avg_cpu >= CPU_THRESHOLD * 1.5, with avg_cpu = n/d
AtLeastUpper(avg_cpu, threshold) == 2 * avg_cpu[1] >= 3 * threshold * avg_cpu[2]

\* avg_cpu < CPU_THRESHOLD / 2.0
BelowLower(avg_cpu, threshold) == 2 * avg_cpu[1] < threshold * avg_cpu[2]

\* The tier proposed from position idx, when one is proposed.
NextLargerMut(idx) == IF idx + 2 <= Len(SIZE_ORDER) THEN idx + 2 ELSE idx + 1
NextLarger(idx) == idx + 1
NextSmallerMut(idx) == IF idx > 2 THEN idx - 2 ELSE idx - 1
NextSmaller(idx) == idx - 1

\* One describe_instance_types call: the candidate and what the provider answered
\* ("ok": a response; "falsy": an empty response; "raise": an exception).
Lookup(candidate, outcome) == [candidate |-> candidate, outcome |-> outcome]

Candidate(current_type, idx) == TypeName(RSplitFamily(current_type), idx)

\* Lines 78-82 and 86-90: the candidate is returned when the lookup gave a response
\* that is true; an exception is printed and nothing is returned
LookupConfirmsMut(outcome) == TRUE
LookupConfirms(outcome) == outcome = "ok"

\* suggest_instance_type(ec2_client, current_type, avg_cpu): the value returned and
\* the lookups made; `outcome` is the provider's answer to a lookup, if one is made.
suggest_instance_type(current_type, avg_cpu, threshold, outcome) ==
    IF ~Contains(current_type, ".")
    THEN [new_type |-> None, lookups |-> <<>>]
    ELSE IF ~SizeInOrder(RSplitSize(current_type))
    THEN [new_type |-> None, lookups |-> <<>>]
    ELSE LET idx == IndexOf(SIZE_ORDER, RSplitSize(current_type)[1])
             up == Candidate(current_type, NextLarger(idx))
             down == Candidate(current_type, NextSmaller(idx))
         IN  IF AtLeastUpper(avg_cpu, threshold)
             THEN IF idx < Len(SIZE_ORDER)
                  THEN [new_type |-> IF LookupConfirms(outcome) THEN Some(up) ELSE None,
                        lookups |-> <<Lookup(up, outcome)>>]
                  ELSE [new_type |-> None, lookups |-> <<>>]
             ELSE IF BelowLower(avg_cpu, threshold)
             THEN IF idx > 1
                  THEN [new_type |-> IF LookupConfirms(outcome) THEN Some(down) ELSE None,
                        lookups |-> <<Lookup(down, outcome)>>]
                  ELSE [new_type |-> None, lookups |-> <<>>]
             ELSE [new_type |-> None, lookups |-> <<>>]

-----------------------------------------------------------------------------
(* JSON text: json.dumps and json.loads on piece strings *)

\* Parsed JSON values
JStr(s) == [t |-> "str", s |-> s]
JObj(m) == [t |-> "obj", m |-> m]
JArr(a) == [t |-> "arr", a |-> a]
JLit(w) == [t |-> "lit", w |-> w]
Pair(k, v) == [k |-> k, v |-> v]

Quote == "\""
Backslash == "\\"

\* Numbers and the three JSON words, as they occur in the bodies modelled
Literals == {"null", "true", "false", "0", "12"}

\* Characters json.dumps escapes among the first p of s
EscapedUpTo(s, p) == Cardinality({q \in 1..p : s[q] \in {Quote, Backslash}})

\* The escapes json.dumps applies inside a string: a backslash before every quote
\* and every backslash
EscapeString(s) ==
    [m \in 1..(Len(s) + EscapedUpTo(s, Len(s))) |->
        IF \E p \in 1..Len(s) : s[p] \in {Quote, Backslash} /\ p + EscapedUpTo(s, p) - 1 = m
        THEN Backslash
        ELSE s[CHOOSE p \in 1..Len(s) : p + EscapedUpTo(s, p) = m]]

DumpString(s) == <<Quote>> \o EscapeString(s) \o <<Quote>>

\* json.dumps(v, separators=(item, key)): the default is (", ", ": "), written here
\* as spaced = TRUE; Slack's compact form is spaced = FALSE.
RECURSIVE Dumps(_, _)
RECURSIVE DumpMembers(_, _)
RECURSIVE DumpElements(_, _)
Dumps(v, spaced) ==
    CASE v.t = "str" -> DumpString(v.s)
      [] v.t = "lit" -> <<v.w>>
      [] v.t = "obj" -> <<"{">> \o DumpMembers(v.m, spaced) \o <<"}">>
      [] v.t = "arr" -> <<"[">> \o DumpElements(v.a, spaced) \o <<"]">>
DumpMembers(m, spaced) ==
    IF m = <<>> THEN <<>>
    ELSE DumpString(Head(m).k) \o <<":">> \o (IF spaced THEN <<" ">> ELSE <<>>)
         \o Dumps(Head(m).v, spaced)
         \o (IF Len(m) > 1
             THEN <<",">> \o (IF spaced THEN <<" ">> ELSE <<>>) \o DumpMembers(Tail(m), spaced)
             ELSE <<>>)
DumpElements(a, spaced) ==
    IF a = <<>> THEN <<>>
    ELSE Dumps(Head(a), spaced)
         \o (IF Len(a) > 1
             THEN <<",">> \o (IF spaced THEN <<" ">> ELSE <<>>) \o DumpElements(Tail(a), spaced)
             ELSE <<>>)

\* Position of the first piece at or after i that is not whitespace
RECURSIVE SkipWs(_, _)
SkipWs(s, i) == IF i <= Len(s) /\ s[i] = " " THEN SkipWs(s, i + 1) ELSE i

ParseFail == [ok |-> FALSE]
Parsed(v, i) == [ok |-> TRUE, v |-> v, i |-> i]

\* The number of backslashes that end just before the piece at j
BackslashRun(s, j) ==
    CHOOSE k \in 0..(j - 1) :
        /\ \A n \in (j - k)..(j - 1) : s[n] = Backslash
        /\ (j - k - 1 >= 1) => s[j - k - 1] # Backslash
IsEscaped(s, j) == BackslashRun(s, j) % 2 = 1

\* The piece at j is the quote that ends a string
Closes(s, j) == s[j] = Quote /\ ~IsEscaped(s, j)

Dropped == "(dropped)"

\* The pieces from i to j0 - 1 without the backslashes that introduce an escape;
\* an escape other than \" and \\ is refused
StringBody(s, i, j0) ==
    IF \E p \in i..(j0 - 1) :
          s[p] = Backslash /\ ~IsEscaped(s, p) /\ s[p + 1] \notin {Quote, Backslash}
    THEN ParseFail
    ELSE Parsed(JStr(SelectSeq([n \in 1..(j0 - i) |->
                                   IF s[i + n - 1] = Backslash /\ ~IsEscaped(s, i + n - 1)
                                   THEN Dropped ELSE s[i + n - 1]],
                               LAMBDA c : c # Dropped)),
                j0 + 1)

\* The body of a string, from the piece after its opening quote to the first quote
\* that is not escaped
ParseString(s, i) ==
    IF ~\E j \in i..Len(s) : Closes(s, j) THEN ParseFail
    ELSE StringBody(s, i, CHOOSE j \in i..Len(s) :
                             Closes(s, j) /\ \A j2 \in i..(j - 1) : ~Closes(s, j2))

\* In the parser an intermediate result r is named by {e(x) : x \in {r}}: x is then
\* the value of r, computed once.
RECURSIVE ParseValue(_, _)
RECURSIVE ParseMembers(_, _, _)
RECURSIVE MemberAfterKey(_, _, _)
RECURSIVE MemberAfterValue(_, _, _, _)
RECURSIVE ParseElements(_, _, _)
RECURSIVE ElementsAfterValue(_, _, _)
ParseValue(s, i0) ==
    LET i == SkipWs(s, i0)
    IN  IF i > Len(s) THEN ParseFail
        ELSE IF s[i] = "{" THEN ParseMembers(s, i + 1, <<>>)
        ELSE IF s[i] = "[" THEN ParseElements(s, i + 1, <<>>)
        ELSE IF s[i] = Quote THEN ParseString(s, i + 1)
        ELSE IF s[i] \in Literals THEN Parsed(JLit(s[i]), i + 1)
        ELSE ParseFail
ParseMembers(s, i0, acc) ==
    LET i == SkipWs(s, i0)
    IN  IF i > Len(s) THEN ParseFail
        ELSE IF s[i] = "}" /\ acc = <<>> THEN Parsed(JObj(acc), i + 1)
        ELSE IF s[i] # Quote THEN ParseFail
        ELSE CHOOSE r \in {MemberAfterKey(s, k, acc) : k \in {ParseString(s, i + 1)}} : TRUE
MemberAfterKey(s, k, acc) ==
    IF ~k.ok THEN ParseFail
    ELSE LET j == SkipWs(s, k.i)
         IN  IF j > Len(s) \/ s[j] # ":" THEN ParseFail
             ELSE CHOOSE r \in {MemberAfterValue(s, k, v, acc) :
                                   v \in {ParseValue(s, j + 1)}} : TRUE
MemberAfterValue(s, k, v, acc) ==
    IF ~v.ok THEN ParseFail
    ELSE LET n == SkipWs(s, v.i)
         IN  IF n > Len(s) THEN ParseFail
             ELSE IF s[n] = "}" THEN Parsed(JObj(Append(acc, Pair(k.v.s, v.v))), n + 1)
             ELSE IF s[n] = ","
             THEN CHOOSE r \in {ParseMembers(s, m, more) :
                                   m \in {n + 1},
                                   more \in {Append(acc, Pair(k.v.s, v.v))}} : TRUE
             ELSE ParseFail
ParseElements(s, i0, acc) ==
    LET i == SkipWs(s, i0)
    IN  IF i > Len(s) THEN ParseFail
        ELSE IF s[i] = "]" /\ acc = <<>> THEN Parsed(JArr(acc), i + 1)
        ELSE CHOOSE r \in {ElementsAfterValue(s, v, acc) : v \in {ParseValue(s, i)}} : TRUE
ElementsAfterValue(s, v, acc) ==
    IF ~v.ok THEN ParseFail
    ELSE LET n == SkipWs(s, v.i)
         IN  IF n > Len(s) THEN ParseFail
             ELSE IF s[n] = "]" THEN Parsed(JArr(Append(acc, v.v)), n + 1)
             ELSE IF s[n] = ","
             THEN CHOOSE r \in {ParseElements(s, m, more) :
                                   m \in {n + 1}, more \in {Append(acc, v.v)}} : TRUE
             ELSE ParseFail

\* The whole text is one value (trailing whitespace allowed)
LoadsText(s) ==
    CHOOSE r \in {IF p.ok /\ SkipWs(s, p.i) > Len(s) THEN p ELSE ParseFail :
                     p \in {ParseValue(s, 1)}} : TRUE

\* json.loads(text): the value, or a failure (json.JSONDecodeError)
Loads(text) == CHOOSE r \in {LoadsText(s) : s \in {text}} : TRUE

\* d[key] of a parsed object: the value of the last member named key
HasKey(obj, key) == \E n \in 1..Len(obj.m) : obj.m[n].k = key
GetKey(obj, key) ==
    obj.m[CHOOSE n \in 1..Len(obj.m) :
              obj.m[n].k = key /\ \A n2 \in (n + 1)..Len(obj.m) : obj.m[n2].k # key].v

-----------------------------------------------------------------------------
(* Notifier (notify.py) *)

\* A number of hundredths as text
NumText(h) == <<ToString(h \div 100), ".", ToString(h % 100)>>

\* round(x, 2) of x = n/d, in hundredths
Round2(x) == (200 * x[1] + x[2]) \div (2 * x[2])

NameText(name_tag) == IF name_tag.some THEN name_tag.v ELSE <<"None">>

\* suggestion_text of notify_ec2_suggestions
SuggestionText(s) ==
    <<"*Region:* ">> \o s.Region \o <<" *Instance ID:* ">> \o s.InstanceId
    \o <<" *Instance Name:* ">> \o NameText(s.NameTag)
    \o <<" *Current Instance Type:* ">> \o s.CurrentType
    \o <<" *CPU Utilization Average:* ">> \o NumText(s.AverageCPU)
    \o <<"% (Max ">> \o NumText(s.MaxCPU)
    \o <<"%) *Recommended Instance Type:* Change to ">> \o s.SuggestedType

\* action_value of notify_ec2_suggestions: the approve button's value
ActionValue(s) ==
    Dumps(JObj(<<Pair(<<"instance_id">>, JStr(s.InstanceId)),
                 Pair(<<"current_type">>, JStr(s.CurrentType)),
                 Pair(<<"suggested_type">>, JStr(s.SuggestedType)),
                 Pair(<<"region">>, JStr(s.Region))>>), TRUE)

HeaderBlock == [type |-> "header", text |-> <<"EC2 Instance Optimization Suggestions">>]
DividerBlock == [type |-> "divider"]
SectionBlock(text) == [type |-> "section", text |-> text]
ActionsBlock(s) ==
    [type |-> "actions", value |-> ActionValue(s),
     action_id |-> <<"approve_ec2_change_">> \o s.InstanceId]

RECURSIVE SuggestionBlocks(_)
SuggestionBlocks(suggestions) ==
    IF suggestions = <<>> THEN <<>>
    ELSE <<SectionBlock(SuggestionText(Head(suggestions))),
           ActionsBlock(Head(suggestions)), DividerBlock>>
         \o SuggestionBlocks(Tail(suggestions))

\* notify_ec2_suggestions(suggestions, webhook_url): the block lists it hands to
\* send_slack_block_message, in order
notify_ec2_suggestions(suggestions) ==
    IF suggestions = <<>> THEN <<>>
    ELSE << <<HeaderBlock, DividerBlock>> \o SuggestionBlocks(suggestions) >>

\* What urlopen can do with a post
Deliveries == {"posted", "http_error", "network_error"}

\* send_slack_block_message(blocks, webhook_url): the record of the call; `delivery`
\* is what the post does if one is made.  Every outcome returns None.
send_slack_block_message(blocks, webhook_url, delivery) ==
    [blocks |-> blocks,
     delivery |-> IF webhook_url = "None" THEN "no_url" ELSE delivery]

NoOptimizationBlocks == <<SectionBlock(<<"No instances need optimization.">>)>>

\* Lines 175-181 of lambda_handler: the block lists a finished scan sends
ScanMessagesMut(suggestions) ==
    (IF suggestions # <<>> THEN notify_ec2_suggestions(suggestions) ELSE <<>>)
    \o <<NoOptimizationBlocks>>
ScanMessages(suggestions) ==
    (IF suggestions # <<>> THEN notify_ec2_suggestions(suggestions) ELSE <<>>)
    \o (IF suggestions = <<>> THEN <<NoOptimizationBlocks>> ELSE <<>>)

-----------------------------------------------------------------------------
(* Callback decoding (lambda_handler lines 118-126) *)

\* application/x-www-form-urlencoded escapes of the special characters
UrlEscape(c) ==
    CASE c = "{" -> "%7B" [] c = "}" -> "%7D" [] c = "[" -> "%5B" [] c = "]" -> "%5D"
      [] c = ":" -> "%3A" [] c = "," -> "%2C" [] c = Quote -> "%22"
      [] c = Backslash -> "%5C" [] c = "+" -> "%2B" [] c = "=" -> "%3D"
      [] c = " " -> "%20" [] OTHER -> c

Escapes == {"%7B", "%7D", "%5B", "%5D", "%3A", "%2C", "%22", "%5C", "%2B", "%3D", "%20"}

UrlUnescape(e) ==
    CASE e = "%7B" -> "{" [] e = "%7D" -> "}" [] e = "%5B" -> "[" [] e = "%5D" -> "]"
      [] e = "%3A" -> ":" [] e = "%2C" -> "," [] e = "%22" -> Quote
      [] e = "%5C" -> Backslash [] e = "%2B" -> "+" [] e = "%3D" -> "="
      [] e = "%20" -> " " [] OTHER -> e

\* What the sender of a form does: every special character escaped, a space sent as
\* `space` ("+" in a form body, "%20" otherwise)
FormEncode(s, space) ==
    [n \in 1..Len(s) |-> IF s[n] = " " THEN space ELSE UrlEscape(s[n])]

\* urllib.parse.unquote: %XX decoded, "+" left as it is
unquote(s) == [n \in 1..Len(s) |-> UrlUnescape(s[n])]

\* Characters in a piece (the pieces that can start a body; others are one character)
Width(p) ==
    CASE p = "payload" -> 7 [] p = "type" -> 4 [] p = "actions" -> 7
      [] p = "block_actions" -> 13 [] p = "cGF5bG9hZD0lN0IlMjJ0eXBl" -> 24
      [] OTHER -> 1

\* s[n:]: a piece cut in two leaves a fragment
RECURSIVE DropChars(_, _)
DropChars(s, n) ==
    IF n = 0 \/ s = <<>> THEN s
    ELSE IF Width(Head(s)) <= n THEN DropChars(Tail(s), n - Width(Head(s)))
    ELSE <<"(fragment)">> \o Tail(s)

PayloadPrefix == <<"payload", "=">>

\* re.sub(r'\+', '', value_str)
StripPlusMut(s) == s
StripPlus(s) == SelectSeq(s, LAMBDA p : p # "+")

\* A request body: form text, or the base64 of form text
TextBody(text) == [enc |-> "text", text |-> text]
Base64Body(text) == [enc |-> "b64", text |-> text]

\* The characters of a base64 body read as text
Base64Text == <<"cGF5bG9hZD0lN0IlMjJ0eXBl">>

Raised(e) == [ok |-> FALSE, error |-> e]
Value(v) == [ok |-> TRUE, v |-> v]

\* Lines 118-120: body_data
BodyData(ev) ==
    IF ev.isBase64Encoded
    THEN IF ev.body.enc = "b64" THEN Value(ev.body.text) ELSE Raised(<<"binascii.Error">>)
    ELSE IF ev.body.enc = "b64" THEN Value(Base64Text) ELSE Value(ev.body.text)

\* key in v, for a parsed JSON value v
Member(key, v) ==
    CASE v.t = "obj" -> IF HasKey(v, key) THEN "yes" ELSE "no"
      [] v.t = "arr" -> IF \E n \in 1..Len(v.a) : v.a[n] = JStr(key) THEN "yes" ELSE "no"
      [] v.t = "str" -> IF \E n \in 1..Len(v.s) : <<v.s[n]>> = key THEN "yes" ELSE "no"
      [] v.t = "lit" -> "TypeError"

\* bool(v)
Truthy(v) ==
    CASE v.t = "obj" -> v.m # <<>> [] v.t = "arr" -> v.a # <<>>
      [] v.t = "str" -> v.s # <<>> [] v.t = "lit" -> v.w \notin {"null", "false", "0"}

\* Lines 118-124.  "value": value_str was extracted; "empty": the handler returns {};
\* "error": an exception reached the handler's except clause.
DecodeError(e) == [kind |-> "error", error |-> e]
DecodeEmpty == [kind |-> "empty"]
Extracted(s) == [kind |-> "value", value_str |-> s]

\* Lines 123-124, for the body parsed at line 122
ExtractFromBody(body) ==
    LET has == Member(<<"actions">>, body) IN
    IF has = "TypeError" THEN DecodeError(<<"TypeError">>) ELSE
    IF has = "no" THEN DecodeEmpty ELSE
    IF body.t # "obj" THEN DecodeError(<<"TypeError">>) ELSE
    LET actions == GetKey(body, <<"actions">>) IN
    IF ~Truthy(actions) THEN DecodeEmpty ELSE
    IF actions.t = "obj" THEN DecodeError(<<"KeyError">>) ELSE
    IF actions.t = "lit" THEN DecodeError(<<"TypeError">>) ELSE
    LET first == IF actions.t = "arr" THEN actions.a[1] ELSE JStr(<<actions.s[1]>>)
        hasv == Member(<<"value">>, first) IN
    IF hasv = "TypeError" THEN DecodeError(<<"TypeError">>) ELSE
    IF hasv = "no" THEN DecodeEmpty ELSE
    IF first.t # "obj" THEN DecodeError(<<"TypeError">>) ELSE
    LET value == GetKey(first, <<"value">>) IN
    IF value.t # "str" THEN DecodeError(<<"TypeError">>)
    ELSE Extracted(value.s)

\* Lines 121-122: unquote(body_data)[len('payload='):], parsed
ParseBody(body_data) == Loads(DropChars(unquote(body_data), Len("payload=")))

\* Lines 118-124
ExtractValue(ev) ==
    IF ~BodyData(ev).ok THEN DecodeError(BodyData(ev).error)
    ELSE CHOOSE r \in {IF body.ok THEN ExtractFromBody(body.v)
                       ELSE DecodeError(<<"JSONDecodeError">>) :
                          body \in {ParseBody(BodyData(ev).v)}} : TRUE

\* Lines 125-126: json.loads(re.sub(r'\+', '', value_str))
ParseActionValue(s) == Loads(StripPlus(s))

-----------------------------------------------------------------------------
(* Inputs *)

\* CPU_THRESHOLD values (the default 50, and the two ends of the percent scale)
Thresholds == {0, 50, 100}

\* Values of CPU_THRESHOLD for lambda_handler: the default and one other
ScanThresholds == {50, 100}

\* CloudWatch per-minute values; 25 and 75 are the two thresholds at 50
CpuLevels == {0, 10, 25, 50, 74, 75, 80}

DataPoint(a, m) == [Average |-> a, Maximum |-> m]

Families == {<<"t3">>, <<"c5", ".", "x">>}

TierTypes == {f \o <<".", SIZE_ORDER[i]>> : f \in Families, i \in 1..Len(SIZE_ORDER)}

\* a type without a separator, and two with a size that is no tier
OddTypes == {<<"metal">>, <<"u-6tb1", ".", "metal">>, <<"t3", ".">>}

LookupOutcomes == {"ok", "falsy", "raise"}

\* Values of the variables nothing has been assigned to yet
NoEvent == [kind |-> "none"]
NoOrigin == [kind |-> "none"]
Unset == [t |-> "unset"]
NotApplied == [done |-> FALSE]
Pending == [kind |-> "pending"]
NoCall == [st |-> "none"]

\* The state before lambda_handler runs
Quiet ==
    /\ event = NoEvent
    /\ origin = NoOrigin
    /\ regions = <<>>
    /\ ri = 0
    /\ instances = <<>>
    /\ listed = 0
    /\ ec2_suggestions = <<>>
    /\ evaluated = <<>>
    /\ failed = {}
    /\ lookups = <<>>
    /\ value_str = None
    /\ action_value = Unset
    /\ calls = <<>>
    /\ applied = NotApplied
    /\ sent = <<>>
    /\ result = Pending

-----------------------------------------------------------------------------
(* The Metrics Reader and the Sizing Advisor called on their own *)

AdvisorInit ==
    /\ CPU_THRESHOLD \in Thresholds
    /\ Quiet
    /\ SLACK_WEBHOOK_URL = "set"
    /\ pc = "advisor"
    /\ \E t \in TierTypes \cup OddTypes, o \in LookupOutcomes,
          dps \in SeqsUpTo({DataPoint(a, a) : a \in CpuLevels}, MaxSamples) :
          adv = [st |-> "input", current_type |-> t, data_points |-> dps, outcome |-> o,
                 avg_cpu |-> <<0, 1>>, new_type |-> None, lookups |-> <<>>]

AdvisorReadMetrics ==
    /\ adv.st = "input"
    /\ adv' = [adv EXCEPT !.st = "metrics",
                          !.avg_cpu = get_cpu_utilization(adv.data_points).avg_cpu]
    /\ UNCHANGED <<configVars, pc, event, origin, scanVars, callbackVars, sent, result>>

AdvisorSuggest ==
    /\ adv.st = "metrics"
    /\ LET r == suggest_instance_type(adv.current_type, adv.avg_cpu, CPU_THRESHOLD,
                                      adv.outcome)
       IN  adv' = [adv EXCEPT !.st = "done", !.new_type = r.new_type,
                              !.lookups = r.lookups]
    /\ UNCHANGED <<configVars, pc, event, origin, scanVars, callbackVars, sent, result>>

AdvisorNext == AdvisorReadMetrics \/ AdvisorSuggest

AdvisorSpec == AdvisorInit /\ [][AdvisorNext]_vars

\* avg = n/d against the two thresholds of section 4.3, computed from the inputs
AdvMean == IF adv.data_points = <<>> THEN <<0, 1>>
           ELSE <<SumAverage(adv.data_points), Len(adv.data_points)>>
AdvHigh == 2 * AdvMean[1] >= 3 * CPU_THRESHOLD * AdvMean[2]
AdvLow == 2 * AdvMean[1] < CPU_THRESHOLD * AdvMean[2]

\* C1: upsize rule.  For every family f and tier i, a finished advisor call on
\* f.SIZE_ORDER[i] with avg >= 1.5 * threshold returns f.SIZE_ORDER[i+1] when i is not
\* the last tier and the lookup succeeded; on the last tier it returns None and made
\* no lookup.  Threshold 50, t3.medium, 80% gives t3.large.
C1_Upsize ==
    adv.st = "done" =>
        /\ \A f \in Families, i \in 1..Len(SIZE_ORDER) :
              (adv.current_type = f \o <<".", SIZE_ORDER[i]>> /\ AdvHigh) =>
                  /\ (i < Len(SIZE_ORDER) /\ adv.outcome = "ok") =>
                        adv.new_type = Some(f \o <<".", SIZE_ORDER[i + 1]>>)
                  /\ i = Len(SIZE_ORDER) => (adv.new_type = None /\ adv.lookups = <<>>)
        /\ (/\ CPU_THRESHOLD = 50
            /\ adv.current_type = <<"t3", ".", "medium">>
            /\ adv.data_points = <<DataPoint(80, 80)>>
            /\ adv.outcome = "ok") => adv.new_type = Some(<<"t3", ".", "large">>)

C1_Witness ==
    /\ adv.st = "done"
    /\ CPU_THRESHOLD = 50
    /\ adv.current_type = <<"t3", ".", "medium">>
    /\ adv.data_points = <<DataPoint(80, 80)>>
    /\ adv.new_type = Some(<<"t3", ".", "large">>)

\* C2: downsize rule.  For every family f and tier i, a finished advisor call on
\* f.SIZE_ORDER[i] with avg < threshold / 2 returns f.SIZE_ORDER[i-1] when i is not
\* the first tier and the lookup succeeded; on the first tier it returns None.
\* Threshold 50, t3.medium, 10% gives t3.small; so does an instance with no samples
\* (average 0.0) under a positive threshold.
C2_Downsize ==
    adv.st = "done" =>
        /\ \A f \in Families, i \in 1..Len(SIZE_ORDER) :
              (adv.current_type = f \o <<".", SIZE_ORDER[i]>> /\ AdvLow) =>
                  /\ (i > 1 /\ adv.outcome = "ok") =>
                        adv.new_type = Some(f \o <<".", SIZE_ORDER[i - 1]>>)
                  /\ i = 1 => adv.new_type = None
        /\ (/\ CPU_THRESHOLD = 50
            /\ adv.current_type = <<"t3", ".", "medium">>
            /\ adv.data_points \in {<<DataPoint(10, 10)>>, <<>>}
            /\ adv.outcome = "ok") => adv.new_type = Some(<<"t3", ".", "small">>)
        /\ (adv.data_points = <<>> /\ CPU_THRESHOLD > 0) => AdvLow

C2_Witness ==
    /\ adv.st = "done"
    /\ CPU_THRESHOLD = 50
    /\ adv.current_type = <<"t3", ".", "medium">>
    /\ adv.data_points = <<>>
    /\ adv.new_type = Some(<<"t3", ".", "small">>)

-----------------------------------------------------------------------------
(* Inputs of lambda_handler *)

\* describe_regions: the k-th region name
RegionName(k) == <<"us-east-" \o ToString(k)>>

\* Types of the running instances of a scan: a middle tier, the first tier, a type
\* without a separator and one whose size is no tier
ScanTypes == {<<"t3", ".", "medium">>, <<"t3", ".", "nano">>, <<"metal">>,
              <<"u-6tb1", ".", "metal">>}

\* Answers of describe_instance_types during a scan
ScanLookups == {"ok", "raise"}

\* Minutes since launch, on both sides of the hour
LaunchAges == {30, 60}

\* What describe_instances can list: each type launched an hour ago, and one instance
\* launched half an hour ago
Running ==
    {[type |-> t, age |-> 60] : t \in ScanTypes}
    \cup {[type |-> <<"t3", ".", "medium">>, age |-> a] : a \in LaunchAges}

\* Datapoints get_metric_statistics returns for an instance
ScanSamples == {<<>>, <<DataPoint(50, 60)>>, <<DataPoint(80, 90), DataPoint(80, 100)>>}

\* Error texts of failed provider calls
ProviderErrors == {<<"UnauthorizedOperation">>, <<"RequestLimitExceeded">>}

TagsAt(k) == IF k % 2 = 1 THEN <<[Key |-> "env", Value |-> <<"prod">>],
                                 [Key |-> "Name", Value |-> <<"web-" \o ToString(k)>>]>>
             ELSE <<>>

\* One page of describe_instances in region number r: the k-th instance of the page
\* has the type and age chosen for it
Reservation(r, chosen) ==
    [k \in 1..Len(chosen) |->
        [InstanceId |-> <<"i-" \o ToString(r) \o ToString(k)>>,
         InstanceType |-> chosen[k].type,
         LaunchedMinutesAgo |-> chosen[k].age,
         Tags |-> TagsAt(k)]]

\* get_running_instances: the instances launched at least one hour ago
get_running_instances(page) == SelectSeq(page, LAMBDA inst : inst.LaunchedMinutesAgo >= 60)

\* next((tag['Value'] for tag in inst.get('Tags', []) if tag['Key'] == 'Name'), None)
NameTagOf(inst) ==
    IF \E n \in 1..Len(inst.Tags) : inst.Tags[n].Key = "Name"
    THEN Some(inst.Tags[CHOOSE n \in 1..Len(inst.Tags) :
                   /\ inst.Tags[n].Key = "Name"
                   /\ \A n2 \in 1..(n - 1) : inst.Tags[n2].Key # "Name"].Value)
    ELSE None

\* The entry appended to ec2_suggestions (lines 159-167)
SuggestionEntry(inst, cpu, new_type, region) ==
    [InstanceId |-> inst.InstanceId,
     NameTag |-> NameTagOf(inst),
     CurrentType |-> inst.InstanceType,
     AverageCPU |-> Round2(cpu.avg_cpu),
     MaxCPU |-> 100 * cpu.max_cpu,
     SuggestedType |-> new_type,
     Region |-> region]

\* Two suggestions as a scan reports them
SampleSuggestions ==
    {[InstanceId |-> <<"i-0a1">>, NameTag |-> Some(<<"web">>),
      CurrentType |-> <<"t3", ".", "medium">>, AverageCPU |-> 8000, MaxCPU |-> 9000,
      SuggestedType |-> <<"t3", ".", "large">>, Region |-> <<"us-east-1">>],
     [InstanceId |-> <<"i-0b2">>, NameTag |-> None,
      CurrentType |-> <<"c5", ".", "x", ".", "micro">>, AverageCPU |-> 0, MaxCPU |-> 0,
      SuggestedType |-> <<"c5", ".", "x", ".", "nano">>, Region |-> <<"eu-west-2">>]}

\* The payload Slack posts when a button is pressed: `value` is the button's value
SlackPayload(s, value) ==
    JObj(<<Pair(<<"type">>, JStr(<<"block_actions">>)),
           Pair(<<"actions">>,
                JArr(<<JObj(<<Pair(<<"action_id">>,
                                   JStr(<<"approve_ec2_change_">> \o s.InstanceId)),
                              Pair(<<"value">>, value)>>)>>))>>)

\* The request body: payload=<the form-encoded compact JSON>
FormBody(doc, space) == PayloadPrefix \o FormEncode(Dumps(doc, FALSE), space)

\* The bodies a callback can carry for suggestion s, by kind; "approve" is the press
\* of the button the Notifier rendered, the others are malformed or foreign requests
CallbackDoc(kind, s) ==
    CASE kind = "approve" -> SlackPayload(s, JStr(ActionValue(s)))
      [] kind = "bad_value" -> SlackPayload(s, JStr(<<"not", " ", "json">>))
      [] kind = "plus_value" -> SlackPayload(s, JStr(<<"+">> \o ActionValue(s)))
      [] kind = "no_region" ->
            SlackPayload(s, JStr(Dumps(JObj(<<Pair(<<"instance_id">>, JStr(s.InstanceId)),
                                              Pair(<<"suggested_type">>,
                                                   JStr(s.SuggestedType))>>), TRUE)))
      [] kind = "number_in_value" -> SlackPayload(s, JStr(<<"12">>))
      [] kind = "value_number" -> SlackPayload(s, JLit("12"))
      [] kind = "no_value" ->
            JObj(<<Pair(<<"actions">>,
                        JArr(<<JObj(<<Pair(<<"action_id">>, JStr(<<"x">>))>>)>>))>>)
      [] kind = "empty_actions" -> JObj(<<Pair(<<"actions">>, JArr(<<>>))>>)
      [] kind = "no_actions" -> JObj(<<Pair(<<"type">>, JStr(<<"view_closed">>))>>)
      [] kind = "number_body" -> JLit("12")
      [] kind = "array_body" -> JArr(<<>>)

DocKinds == {"approve", "bad_value", "plus_value", "no_region", "number_in_value",
             "value_number", "no_value", "empty_actions", "no_actions", "number_body",
             "array_body"}

CallbackEvent(body, flag) == [kind |-> "callback", body |-> body, isBase64Encoded |-> flag]

\* An event and where it came from
Arrival(kind, s, body, flag, value) ==
    [event |-> CallbackEvent(body, flag),
     origin |-> [kind |-> kind, s |-> s, faithful |-> (body.enc = "b64") = flag,
                 value |-> value]]

\* The button value a payload of this kind carries, as text (empty when it has none)
SentValue(kind, s) ==
    CASE kind = "approve" -> ActionValue(s)
      [] kind = "bad_value" -> <<"not", " ", "json">>
      [] kind = "plus_value" -> <<"+">> \o ActionValue(s)
      [] kind = "number_in_value" -> <<"12">>
      [] kind = "no_region" ->
            Dumps(JObj(<<Pair(<<"instance_id">>, JStr(s.InstanceId)),
                         Pair(<<"suggested_type">>, JStr(s.SuggestedType))>>), TRUE)
      [] OTHER -> <<>>

ArrivalsFor(s) ==
    {Arrival(k, s, TextBody(FormBody(CallbackDoc(k, s), "+")), FALSE, SentValue(k, s)) :
        k \in DocKinds}
    \cup {Arrival("approve", s, b, f, ActionValue(s)) :
            b \in {TextBody(FormBody(CallbackDoc("approve", s), "%20")),
                   Base64Body(FormBody(CallbackDoc("approve", s), "+"))},
            f \in BOOLEAN}
    \cup {Arrival("approve", s, TextBody(FormBody(CallbackDoc("approve", s), "+")), TRUE,
                  ActionValue(s)),
          Arrival("no_prefix", s,
                  TextBody(FormEncode(Dumps(CallbackDoc("approve", s), FALSE), "+")),
                  FALSE, ActionValue(s)),
          Arrival("garbage_body", s, TextBody(PayloadPrefix \o <<"%7B", "oops">>),
                  FALSE, <<>>)}

CallbackArrivals == UNION {ArrivalsFor(s) : s \in SampleSuggestions}

\* The collections notify_ec2_suggestions is called with on its own
Collections == {<<>>} \cup {<<s>> : s \in SampleSuggestions}
               \cup {<<s, t>> : s, t \in SampleSuggestions}

-----------------------------------------------------------------------------
(* Results of an invocation *)

Response(status, body) == [kind |-> "response", statusCode |-> status, body |-> body]

\* Lines 135-138
MessageResponse(message) ==
    Response(200, Dumps(JObj(<<Pair(<<"message">>, JStr(message))>>), TRUE))

\* Lines 140-144: the except clause of the callback branch
ErrorResponseMut(e) == Response(200, Dumps(JObj(<<Pair(<<"error">>, JStr(e))>>), TRUE))
ErrorResponse(e) == Response(500, Dumps(JObj(<<Pair(<<"error">>, JStr(e))>>), TRUE))

\* Line 139: return {}
EmptyResult == [kind |-> "empty"]

\* Lines 184-186
ScanResult(suggestions) == [kind |-> "scan", EC2Suggestions |-> suggestions]

\* An exception that leaves lambda_handler
Escaped(e) == [kind |-> "exception", error |-> e]

\* The calls of send_slack_block_message for a list of block lists
SendAll(messages, deliveries) ==
    [n \in 1..Len(messages) |->
        send_slack_block_message(messages[n], SLACK_WEBHOOK_URL, deliveries[n])]

-----------------------------------------------------------------------------
(* lambda_handler: the scan branch *)

Init ==
    /\ CPU_THRESHOLD \in ScanThresholds
    /\ SLACK_WEBHOOK_URL \in {"set", "None"}
    /\ Quiet
    /\ pc = "idle"
    /\ adv = NoCall

\* An event without a body arrives
InvokeScan ==
    /\ pc = "idle"
    /\ event' = [kind |-> "scan"]
    /\ pc' = "scan"
    /\ UNCHANGED <<configVars, origin, scanVars, callbackVars, sent, result, adv>>

\* Line 148: get_all_regions(), outside any try
GetAllRegions ==
    /\ pc = "scan"
    /\ \E n \in 0..MaxRegions, out \in {<<"ok">>} \cup ProviderErrors :
          IF out = <<"ok">>
          THEN /\ regions' = [k \in 1..n |-> RegionName(k)]
               /\ pc' = "region"
               /\ UNCHANGED result
          ELSE /\ result' = Escaped(out)
               /\ pc' = "done"
               /\ UNCHANGED regions
    /\ UNCHANGED <<configVars, event, origin, ri, instances, listed, ec2_suggestions,
                   evaluated, failed, lookups, callbackVars, sent, adv>>

\* Lines 168-170: where the loop goes after a region raised ("region": on to the
\* next region; "end": out of the loop)
AfterRegionErrorMut == "end"
AfterRegionError == "region"

\* Lines 150-155: the next region's clients and get_running_instances
RegionBegin ==
    /\ pc = "region"
    /\ ri < Len(regions)
    /\ ri' = ri + 1
    /\ evaluated' = Append(evaluated, <<>>)
    /\ \E out \in {<<"ok">>} \cup ProviderErrors :
          IF out = <<"ok">>
          THEN \E chosen \in SeqsUpTo(Running, MaxInstances - listed) :
                  /\ instances' = get_running_instances(Reservation(ri', chosen))
                  /\ listed' = listed + Len(chosen)
                  /\ pc' = IF instances' = <<>> THEN "region" ELSE "instance"
                  /\ UNCHANGED failed
          ELSE /\ failed' = failed \cup {ri'}
               /\ pc' = AfterRegionError
               /\ UNCHANGED <<instances, listed>>
    /\ UNCHANGED <<configVars, event, origin, regions, ec2_suggestions, lookups,
                   callbackVars, sent, result, adv>>

\* Lines 156-167: one instance of the current region
ProcessInstance ==
    /\ pc = "instance"
    /\ instances # <<>>
    /\ \E out \in {<<"ok">>} \cup ProviderErrors :
          IF out = <<"ok">>
          THEN \E data_points \in ScanSamples, lookup \in ScanLookups :
                  LET inst == Head(instances)
                      cpu == get_cpu_utilization(data_points)
                      r == suggest_instance_type(inst.InstanceType, cpu.avg_cpu,
                                                 CPU_THRESHOLD, lookup)
                      entry == SuggestionEntry(inst, cpu, r.new_type.v, regions[ri])
                  IN  /\ lookups' = lookups \o r.lookups
                      /\ IF r.new_type.some
                         THEN /\ ec2_suggestions' = Append(ec2_suggestions, entry)
                              /\ evaluated' = [evaluated EXCEPT ![ri] = Append(@, entry)]
                         ELSE UNCHANGED <<ec2_suggestions, evaluated>>
                      /\ instances' = Tail(instances)
                      /\ pc' = IF instances' = <<>> THEN "region" ELSE "instance"
                      /\ UNCHANGED failed
          ELSE /\ failed' = failed \cup {ri}
               /\ instances' = <<>>
               /\ pc' = AfterRegionError
               /\ UNCHANGED <<ec2_suggestions, evaluated, lookups>>
    /\ UNCHANGED <<configVars, event, origin, regions, ri, listed, callbackVars, sent,
                   result, adv>>

\* Line 150: no region is left
LoopEnd ==
    /\ pc = "region"
    /\ ri = Len(regions)
    /\ pc' = "end"
    /\ UNCHANGED <<configVars, event, origin, scanVars, callbackVars, sent, result, adv>>

\* Lines 172-186: the loop is over; notify and return
NotifyScan ==
    /\ pc = "end"
    /\ LET messages == ScanMessages(ec2_suggestions)
       IN  \E deliveries \in [1..Len(messages) -> Deliveries] :
              sent' = sent \o SendAll(messages, deliveries)
    /\ result' = ScanResult(ec2_suggestions)
    /\ pc' = "done"
    /\ UNCHANGED <<configVars, event, origin, scanVars, callbackVars, adv>>

\* notify_ec2_suggestions called on its own with a collection
CallNotifier ==
    /\ pc = "idle"
    /\ \E collection \in Collections :
          /\ event' = [kind |-> "notifier", suggestions |-> collection]
          /\ LET messages == notify_ec2_suggestions(collection)
             IN  \E deliveries \in [1..Len(messages) -> Deliveries] :
                    sent' = sent \o SendAll(messages, deliveries)
    /\ result' = [kind |-> "none"]
    /\ pc' = "done"
    /\ UNCHANGED <<configVars, origin, scanVars, callbackVars, adv>>

-----------------------------------------------------------------------------
(* lambda_handler: the callback branch *)

\* An event with a body arrives
InvokeCallback ==
    /\ pc = "idle"
    /\ \E a \in CallbackArrivals :
          /\ event' = a.event
          /\ origin' = a.origin
    /\ pc' = "callback"
    /\ UNCHANGED <<configVars, scanVars, callbackVars, sent, result, adv>>

\* Lines 116-124 and 139-144
CallbackExtract ==
    /\ pc = "callback"
    /\ \E d \in {ExtractValue(event)} :
           CASE d.kind = "error" ->
                   /\ result' = ErrorResponse(d.error)
                   /\ pc' = "done"
                   /\ UNCHANGED value_str
             [] d.kind = "empty" ->
                   /\ result' = EmptyResult
                   /\ pc' = "done"
                   /\ UNCHANGED value_str
             [] d.kind = "value" ->
                   /\ value_str' = Some(d.value_str)
                   /\ pc' = "value"
                   /\ UNCHANGED result
    /\ UNCHANGED <<configVars, event, origin, scanVars, action_value, calls, applied, sent,
                   adv>>

\* Lines 125-126 and 140-144
CallbackParseValue ==
    /\ pc = "value"
    /\ \E parsed \in {ParseActionValue(value_str.v)} :
           IF parsed.ok
           THEN /\ action_value' = parsed.v
                /\ pc' = "apply"
                /\ UNCHANGED result
           ELSE /\ result' = ErrorResponse(<<"JSONDecodeError">>)
                /\ pc' = "done"
                /\ UNCHANGED action_value
    /\ UNCHANGED <<configVars, event, origin, scanVars, value_str, calls, applied, sent,
                   adv>>

\* The steps of apply_single_ec2_change, in the order of lines 103-108
FirstStep == "stop_instances"
StepAfterMut(op) ==
    CASE op = "stop_instances" -> "modify_instance_attribute"
      [] op = "wait_instance_stopped" -> "modify_instance_attribute"
      [] op = "modify_instance_attribute" -> "start_instances"
      [] op = "start_instances" -> "return"
StepAfter(op) ==
    CASE op = "stop_instances" -> "wait_instance_stopped"
      [] op = "wait_instance_stopped" -> "modify_instance_attribute"
      [] op = "modify_instance_attribute" -> "start_instances"
      [] op = "start_instances" -> "return"

\* instance_data[key], as the text an f-string makes of it
FieldText(v) == IF v.t = "str" THEN v.s ELSE Dumps(v, TRUE)
inst_id == FieldText(GetKey(action_value, <<"instance_id">>))
new_type == FieldText(GetKey(action_value, <<"suggested_type">>))
region == FieldText(GetKey(action_value, <<"region">>))

\* Line 109
SuccessMessage ==
    <<"Instance ">> \o inst_id \o <<" has been changed to ">> \o new_type
    \o <<". (Region: ">> \o region \o <<")">>

\* Line 111
FailureMessage(e) ==
    <<"Instance ">> \o inst_id \o <<" change failed. (Region: ">> \o region \o <<"): ">> \o e

Applied(success, message) == [done |-> TRUE, success |-> success, message |-> message]

\* Lines 96-100: the three fields and the client; an exception here is not caught by
\* apply_single_ec2_change and reaches the handler's except clause
ApplyBegin ==
    /\ pc = "apply"
    /\ IF action_value.t # "obj"
       THEN /\ result' = ErrorResponse(<<"TypeError">>)
            /\ pc' = "done"
       ELSE IF \E key \in {<<"instance_id">>, <<"suggested_type">>, <<"region">>} :
                  ~HasKey(action_value, key)
       THEN /\ result' = ErrorResponse(<<"KeyError">>)
            /\ pc' = "done"
       ELSE \E out \in {<<"ok">>} \cup ProviderErrors :
               IF out = <<"ok">>
               THEN pc' = FirstStep /\ UNCHANGED result
               ELSE result' = ErrorResponse(out) /\ pc' = "done"
    /\ UNCHANGED <<configVars, event, origin, scanVars, callbackVars, sent, adv>>

\* One provider call of lines 103-108 and what follows it
ApplyStep(op) ==
    /\ pc = op
    /\ \E out \in {<<"ok">>} \cup ProviderErrors :
          /\ calls' = Append(calls, [op |-> op, inst_id |-> inst_id, region |-> region,
                                     new_type |-> new_type, outcome |-> out])
          /\ IF out # <<"ok">>
             THEN applied' = Applied(FALSE, FailureMessage(out)) /\ pc' = "return"
             ELSE /\ pc' = StepAfter(op)
                  /\ applied' = IF pc' = "return" THEN Applied(TRUE, SuccessMessage)
                                ELSE applied
    /\ UNCHANGED <<configVars, event, origin, scanVars, value_str, action_value, sent,
                   result, adv>>

StopInstances == ApplyStep("stop_instances")
WaitInstanceStopped == ApplyStep("wait_instance_stopped")
ModifyInstanceAttribute == ApplyStep("modify_instance_attribute")
StartInstances == ApplyStep("start_instances")

\* Lines 127-138: apply_single_ec2_change has returned; notify the outcome and return
NotifyOutcome ==
    /\ pc = "return"
    /\ \E delivery \in Deliveries :
          sent' = Append(sent, send_slack_block_message(<<SectionBlock(applied.message)>>,
                                                        SLACK_WEBHOOK_URL, delivery))
    /\ result' = MessageResponse(applied.message)
    /\ pc' = "done"
    /\ UNCHANGED <<configVars, event, origin, scanVars, callbackVars, adv>>

Next ==
    \/ InvokeScan
    \/ GetAllRegions
    \/ RegionBegin
    \/ ProcessInstance
    \/ LoopEnd
    \/ NotifyScan
    \/ CallNotifier
    \/ InvokeCallback
    \/ CallbackExtract
    \/ CallbackParseValue
    \/ ApplyBegin
    \/ StopInstances
    \/ WaitInstanceStopped
    \/ ModifyInstanceAttribute
    \/ StartInstances
    \/ NotifyOutcome

Spec == Init /\ [][Next]_vars

-----------------------------------------------------------------------------
(* Properties of a scan's suggestions *)

\* The entry is one tier above its current type and its average is at or above the
\* upper threshold
OneTierUp(e) ==
    \E i \in 1..(Len(SIZE_ORDER) - 1) :
        /\ Len(e.CurrentType) >= 3
        /\ e.CurrentType[Len(e.CurrentType) - 1] = "."
        /\ e.CurrentType[Len(e.CurrentType)] = SIZE_ORDER[i]
        /\ e.SuggestedType = SubSeq(e.CurrentType, 1, Len(e.CurrentType) - 1)
                             \o <<SIZE_ORDER[i + 1]>>
        /\ 2 * e.AverageCPU >= 3 * 100 * CPU_THRESHOLD

\* The entry is one tier below its current type and its average is below the lower
\* threshold
OneTierDown(e) ==
    \E i \in 2..Len(SIZE_ORDER) :
        /\ Len(e.CurrentType) >= 3
        /\ e.CurrentType[Len(e.CurrentType) - 1] = "."
        /\ e.CurrentType[Len(e.CurrentType)] = SIZE_ORDER[i]
        /\ e.SuggestedType = SubSeq(e.CurrentType, 1, Len(e.CurrentType) - 1)
                             \o <<SIZE_ORDER[i - 1]>>
        /\ 2 * e.AverageCPU < 100 * CPU_THRESHOLD

Suggesting(type) == {n \in 1..Len(ec2_suggestions) : ec2_suggestions[n].SuggestedType = type}
Confirming(type) == {n \in 1..Len(lookups) : lookups[n] = Lookup(type, "ok")}

\* C3: every entry of a scan's suggestion list names a type that differs from the
\* current one, has the same family and the size one tier above (only with an average
\* at or above the upper threshold) or one tier below (only with an average below the
\* lower threshold), and each entry has its own successful type lookup of this scan;
\* the list the scan returns is that list.
C3_Suggestions ==
    /\ \A n \in 1..Len(ec2_suggestions) :
          /\ ec2_suggestions[n].SuggestedType # ec2_suggestions[n].CurrentType
          /\ OneTierUp(ec2_suggestions[n]) \/ OneTierDown(ec2_suggestions[n])
          /\ Cardinality(Suggesting(ec2_suggestions[n].SuggestedType))
                <= Cardinality(Confirming(ec2_suggestions[n].SuggestedType))
    /\ result.kind = "scan" => result.EC2Suggestions = ec2_suggestions

\* A finished scan that made two lookups, one of which failed, and returns the one
\* suggestion the other confirmed
C3_Witness ==
    /\ pc = "done"
    /\ result.kind = "scan"
    /\ Len(result.EC2Suggestions) = 1
    /\ Len(lookups) = 2
    /\ \E n \in 1..2 : lookups[n].outcome # "ok"

-----------------------------------------------------------------------------
(* Properties of apply_single_ec2_change *)

StepOrder == <<"stop_instances", "wait_instance_stopped", "modify_instance_attribute",
               "start_instances">>

EndsWith(s, t) == Len(t) <= Len(s) /\ SubSeq(s, Len(s) - Len(t) + 1, Len(s)) = t

AllCompleted == Len(calls) = Len(StepOrder) /\ \A n \in 1..Len(calls) : calls[n].outcome = <<"ok">>

\* C4: the provider calls made for the instance are a prefix of stop, wait until
\* stopped, modify the type, start; every call but the last one made has returned
\* normally; the result is (True, message) exactly when all four returned normally;
\* a call that raised is the last call, and the result is then (False, message ending
\* with the error text).
C4_StepOrder ==
    /\ Len(calls) <= Len(StepOrder)
    /\ \A n \in 1..Len(calls) :
          /\ calls[n].op = StepOrder[n]
          /\ n < Len(calls) => calls[n].outcome = <<"ok">>
          /\ calls[n].inst_id = calls[1].inst_id
    /\ applied.done =>
          /\ applied.success <=> AllCompleted
          /\ ~applied.success =>
                /\ calls # <<>>
                /\ calls[Len(calls)].outcome # <<"ok">>
                /\ EndsWith(applied.message, calls[Len(calls)].outcome)
    /\ AllCompleted => (applied.done /\ applied.success)
    /\ (calls # <<>> /\ calls[Len(calls)].outcome # <<"ok">>) =>
          (applied.done /\ ~applied.success)

\* The instance was stopped, the type change raised, and the invocation is over: no
\* start was issued
C4_Witness ==
    /\ pc = "done"
    /\ Len(calls) = 3
    /\ calls[3].op = "modify_instance_attribute"
    /\ calls[3].outcome = <<"UnauthorizedOperation">>
    /\ applied.done
    /\ ~applied.success

-----------------------------------------------------------------------------
(* Properties of the callback branch *)

BodyHas(body, key) ==
    \E p \in {Loads(body)} : p.ok /\ p.v.t = "obj" /\ HasKey(p.v, key)

ChangeSucceeded == applied.done /\ applied.success

\* C5: a finished invocation for an event with a body has returned statusCode 200 with
\* a message body after a change that succeeded, or statusCode 500 with an error body
\* after one that did not, and nothing else.
C5_CallbackResponse ==
    (pc = "done" /\ event.kind = "callback") =>
        /\ result.kind = "response"
        /\ \/ /\ result.statusCode = 200
              /\ BodyHas(result.body, <<"message">>)
              /\ ChangeSucceeded
           \/ /\ result.statusCode = 500
              /\ BodyHas(result.body, <<"error">>)
              /\ ~ChangeSucceeded

\* The body could not be decoded or parsed (lines 118-122 raised)
BodyUnreadable ==
    /\ event.kind = "callback"
    /\ \/ ~BodyData(event).ok
       \/ ~ParseBody(BodyData(event).v).ok

ErrorTexts == {<<"JSONDecodeError">>, <<"binascii.Error">>, <<"UnicodeDecodeError">>}

NothingExecuted ==
    /\ calls = <<>>
    /\ ~applied.done
    /\ sent = <<>>
    /\ pc \in {"callback", "value", "done"}
    /\ pc = "done" => \E e \in ErrorTexts : result = Response(500, Dumps(JObj(<<Pair(<<"error">>, JStr(e))>>), TRUE))

\* C6 as stated: when the value of the first action, as the payload carries it, is not
\* parsable JSON, or the body cannot be decoded or parsed, the response is a 500 with
\* the exception text, no provider call is made and no notification is sent.
C6_Original ==
    (\/ BodyUnreadable
     \/ value_str.some /\ ~Loads(origin.value).ok) => NothingExecuted

\* C6: when the value of the first action, with its '+' characters removed, is not
\* parsable JSON, or the body cannot be decoded or parsed, the response is a 500 with
\* the exception text, no provider call is made and no notification is sent.
C6_MalformedCallback ==
    (\/ BodyUnreadable
     \/ value_str.some /\ ~Loads(SelectSeq(value_str.v, LAMBDA p : p # "+")).ok)
        => NothingExecuted

\* A finished invocation whose button value was not JSON
C6_Witness ==
    /\ pc = "done"
    /\ origin.kind = "bad_value"
    /\ value_str.some
    /\ result.kind = "response"
    /\ result.statusCode = 500
    /\ calls = <<>>

-----------------------------------------------------------------------------
(* Properties of the scan branch *)

\* The suggestions of region number r that the claim as stated keeps
OfUnfailed(r) == IF r \in failed THEN <<>> ELSE evaluated[r]

EntriesInRegionOrder ==
    \A r \in 1..Len(evaluated) :
        \A k \in 1..Len(evaluated[r]) : evaluated[r][k].Region = regions[r]

\* C7 as stated: a finished scan has gone through every region and returns exactly
\* the suggestions of the regions in which no provider call failed, in region order.
C7_Original ==
    result.kind = "scan" =>
        /\ Len(evaluated) = Len(regions)
        /\ result.EC2Suggestions = Flatten([r \in 1..Len(evaluated) |-> OfUnfailed(r)])

\* C7: a finished scan has gone through every region, whichever of them failed, and
\* returns, in region order, the suggestions made for each region's instances up to
\* the region's end or up to the provider call that failed in it.
C7_RegionIsolation ==
    /\ EntriesInRegionOrder
    /\ failed \subseteq 1..Len(evaluated)
    /\ result.kind = "scan" =>
          /\ Len(evaluated) = Len(regions)
          /\ ri = Len(regions)
          /\ result.EC2Suggestions = Flatten(evaluated)

\* A finished scan whose first region failed after a suggestion had been made for one
\* of its instances, and whose second region was then scanned without a failure
C7_Witness ==
    /\ pc = "done"
    /\ result.kind = "scan"
    /\ failed = {1}
    /\ Len(evaluated) = 2
    /\ evaluated[1] # <<>>
    /\ result.EC2Suggestions = evaluated[1]

\* C8: no invocation ends with an exception leaving lambda_handler.
C8_NoEscape == result.kind # "exception"

-----------------------------------------------------------------------------
(* Properties of the notifications *)

Types(blocks, type) == {n \in 1..Len(blocks) : blocks[n].type = type}

\* One message for the collection: a header, and for each suggestion a text block and
\* an approve control carrying the suggestion's four fields
SuggestionMessage(blocks, collection) ==
    /\ Len(blocks) = 2 + 3 * Len(collection)
    /\ blocks[1] = HeaderBlock
    /\ Cardinality(Types(blocks, "header")) = 1
    /\ Cardinality(Types(blocks, "section")) = Len(collection)
    /\ Cardinality(Types(blocks, "actions")) = Len(collection)
    /\ \A k \in 1..Len(collection) :
          /\ blocks[3 * k].type = "section"
          /\ blocks[3 * k].text = SuggestionText(collection[k])
          /\ blocks[3 * k + 1].type = "actions"
          /\ \E p \in {Loads(blocks[3 * k + 1].value)} :
                /\ p.ok
                /\ GetKey(p.v, <<"instance_id">>) = JStr(collection[k].InstanceId)
                /\ GetKey(p.v, <<"current_type">>) = JStr(collection[k].CurrentType)
                /\ GetKey(p.v, <<"suggested_type">>) = JStr(collection[k].SuggestedType)
                /\ GetKey(p.v, <<"region">>) = JStr(collection[k].Region)

OneMessageFor(collection) ==
    /\ Len(sent) = 1
    /\ IF collection = <<>> THEN sent[1].blocks = NoOptimizationBlocks
       ELSE SuggestionMessage(sent[1].blocks, collection)

\* C9 as stated: a finished scan, and a call of the Notifier with a collection, has
\* sent exactly one message: the no-optimization message when the list is empty, the
\* suggestions message otherwise.
C9_Original ==
    /\ (pc = "done" /\ result.kind = "scan") => OneMessageFor(result.EC2Suggestions)
    /\ (pc = "done" /\ event.kind = "notifier") => OneMessageFor(event.suggestions)

\* C9: a finished scan has sent exactly one message: the no-optimization message when
\* its list is empty, the suggestions message otherwise; a call of the Notifier with a
\* non-empty collection has sent exactly the suggestions message, and with an empty
\* collection it has sent nothing.
C9_ScanNotification ==
    /\ (pc = "done" /\ result.kind = "scan") => OneMessageFor(result.EC2Suggestions)
    /\ (pc = "done" /\ event.kind = "notifier") =>
          IF event.suggestions = <<>> THEN sent = <<>>
          ELSE OneMessageFor(event.suggestions)

\* A finished scan with no suggestion, whose one message is the no-optimization one
C9_Witness ==
    /\ pc = "done"
    /\ result.kind = "scan"
    /\ result.EC2Suggestions = <<>>
    /\ Len(sent) = 1
    /\ sent[1].blocks = NoOptimizationBlocks

-----------------------------------------------------------------------------
(* The approve control's value, from the Notifier to apply_single_ec2_change *)

\* The value of the approve control in the message the Notifier makes for s alone
EmbeddedValue(s) == notify_ec2_suggestions(<<s>>)[1][4].value

\* The callback is the press of the button the Notifier rendered for origin.s
ButtonPressed ==
    /\ event.kind = "callback"
    /\ origin.kind = "approve"
    /\ origin.faithful
    /\ origin.value = EmbeddedValue(origin.s)

\* C10: when the value the Notifier embedded for a suggestion comes back in a callback
\* body, the decode steps succeed and apply_single_ec2_change gets the suggestion's
\* instance_id, suggested_type and region, and every provider call is made for that
\* instance, type and region.
C10_RoundTrip ==
    ButtonPressed =>
        /\ pc # "callback" => value_str.some
        /\ pc \notin {"callback", "value"} =>
              /\ action_value.t = "obj"
              /\ GetKey(action_value, <<"instance_id">>) = JStr(origin.s.InstanceId)
              /\ GetKey(action_value, <<"suggested_type">>) = JStr(origin.s.SuggestedType)
              /\ GetKey(action_value, <<"region">>) = JStr(origin.s.Region)
        /\ \A n \in 1..Len(calls) :
              /\ calls[n].inst_id = origin.s.InstanceId
              /\ calls[n].new_type = origin.s.SuggestedType
              /\ calls[n].region = origin.s.Region

\* A base64 body whose change went through all four steps for the displayed instance
C10_Witness ==
    /\ pc = "done"
    /\ ButtonPressed
    /\ event.isBase64Encoded
    /\ Len(calls) = 4
    /\ calls[3].new_type = origin.s.SuggestedType
    /\ applied.done
    /\ applied.success

=============================================================================
